---- MODULE Spec2Model ----
(***************************************************************************)
(* Dispatch pipeline of the MCP proxy: request validation, response cache, *)
(* per-backend circuit breakers, the global priority queue and the         *)
(* forwarding call, as implemented by ProxyManager (proxy.js),             *)
(* CircuitBreaker / CircuitBreakerManager (circuit-breaker.js),            *)
(* CacheManager (cache.js) and createErrorResponse / handleProxyError      *)
(* (errors.js).                                                            *)
(*                                                                         *)
(* JavaScript runs the pipeline on one event loop: a handler runs to its   *)
(* next await without interleaving, so every action below is one such      *)
(* run-to-completion segment (including the microtask chain it triggers).  *)
(* Time is in milliseconds, as Date.now().                                 *)
(***************************************************************************)
EXTENDS Integers, Sequences, FiniteSets, TLC

VARIABLES
    now,         \* Date.now()
    breakers,    \* CircuitBreakerManager.breakers: serverId -> CircuitBreaker | NoBreaker
    cache,       \* CacheManager.cache (NodeCache data): set of [key, value, expires]
    cacheStats,  \* CacheManager.stats
    queue,       \* globalQueue: callers waiting for admission, in dequeue order
    pending,     \* globalQueue.pending: admitted tasks the queue still counts
    concurrency, \* globalQueue.concurrency = config.maxConcurrentRequests
    callers,     \* one record per concurrent caller of processRequest
    resp,        \* the answers processRequest returned in the last step
    last,        \* history: what the last step did
    opened,      \* history: per breaker, the trip whose recovery window is running
    valIn,       \* input of isValidMCPRequest (validator specification)
    valOut       \* its result

vars == <<now, breakers, cache, cacheStats, queue, pending, concurrency, callers,
          resp, last, opened, valIn, valOut>>

----------------------------------------------------------------------------
(* Bounds of the model *)

NumCallers == 3      \* concurrent callers of processRequest
FewCallers == 2      \* ... of them used where the queue is not the subject
MaxRequests == 7     \* requests handed to the queue (breaker specification)
MaxIsolation == 6    \* requests handed to the queue (two-backend specification)
MaxPipeline == 2     \* requests handed to the queue (pipeline specification)
MaxHits == 1         \* requests served from the cache in one behaviour
MaxTime == 60000     \* the clock stops here
MaxCache == 2        \* requests handed to the queue (cache specification)
MaxCacheTime == 800000     \* the clock of the cache specification stops here
MaxQueue == 3        \* requests handed to the queue (queue specification)
MaxRetry == 2        \* requests handed to the queue (retry specification)
MaxRecover == 6      \* requests handed to the queue (recovery specification)
MaxCleanup == 3      \* requests handed to the queue (cleanup specification)
MaxTrip == 6         \* requests handed to the queue (tripping specification)
MaxWait == 3         \* requests handed to the queue (waiting specification)
WaitStep == 30000    \* a step of the clock, in ms (waiting specification)
MaxFull == 2         \* requests handed to the queue (full-cache specification)
PipelineConcurrency == 1   \* options.maxConcurrentRequests (pipeline specification)
BreakerConcurrency == 2    \* options.maxConcurrentRequests (breaker specifications)

(* Program constants *)

failureThreshold == 5
recoveryTimeout == 30000
queueTimeout == 40000
INVALID_REQUEST == -32600
METHOD_NOT_FOUND == -32601
INTERNAL_ERROR == -32603
SERVER_UNAVAILABLE == -32001
REQUEST_TIMEOUT == -32002
CIRCUIT_BREAKER_OPEN == -32003
PROXY_ERROR == -32004
retryAttempts == 3
retryDelay == 500
maxRetryDelay == 3000
TTL_initialize == 600
TTL_tools_list == 300
maxKeys == 1000

Callers == 1..NumCallers
Backends == {"A", "B"}

(* Mutant of breakerKey: one breaker serves every backend. *)
breakerKey_Shared(serverId) == "A"

(* The key under which the registry's Map files a backend's breaker. *)
breakerKey(serverId) == serverId

----------------------------------------------------------------------------
(* JavaScript values.  Every value is a string: "undefined", "null",       *)
(* numbers as "#n", booleans as "true"/"false", and JS strings prefixed by *)
(* "s:" so that the empty JS string is "s:".                               *)

Undef == "undefined"
Null == "null"
JsStrings == {"s:", "s:2.0", "s:1.0", "s:initialize", "s:tools/list",
              "s:tools/call", "s:ping", "s:a"}
JsNumbers == {"#0", "#1", "#2", "#5"}
JsValues == {Undef, Null} \cup JsStrings \cup JsNumbers

TypeOf(v) ==
    IF v = Undef THEN "undefined"
    ELSE IF v \in JsStrings THEN "string"
    ELSE IF v \in JsNumbers THEN "number"
    ELSE "object"

(* A request value: t is what the value is; an object carries its four     *)
(* members (Undef for a missing key); params is Undef, or the ordered list *)
(* of the object's keys as JSON.stringify would emit them.                 *)
ObjReq(j, m, i, p) == [t |-> "object", jsonrpc |-> j, method |-> m, id |-> i, params |-> p]
NoParams == <<>>
NullReq == [t |-> "null", jsonrpc |-> Undef, method |-> Undef, id |-> Undef, params |-> NoParams]
UndefReq == [t |-> "undefined", jsonrpc |-> Undef, method |-> Undef, id |-> Undef, params |-> NoParams]
NumReq == [t |-> "number", jsonrpc |-> Undef, method |-> Undef, id |-> Undef, params |-> NoParams]

(* Reading a member of null or undefined throws a TypeError. *)
MemberThrows(r) == r.t \in {"null", "undefined"}

(* JavaScript truthiness of a request value (a number request stands for a *)
(* non-zero number).                                                       *)
Truthy(r) == r.t \in {"object", "number"}

----------------------------------------------------------------------------
(* errors.js *)

(* A response: kind "result" or "error", the error code (0 for a result),  *)
(* and the id member (Undef when the response has no id key).  Kind        *)
(* "thrown" is a rejected promise, "none" is no response yet.              *)
Response(k, c, i) == [kind |-> k, code |-> c, id |-> i]
NoResp == Response("none", 0, Undef)
Thrown == Response("thrown", 0, Undef)

(* createErrorResponse(code, message, data = null, id = null): the default *)
(* replaces an undefined id by null, and a null id adds no id member.      *)
createErrorResponse(code, id) ==
    Response("error", code, IF id \in {Undef, Null} THEN Undef ELSE id)

(* An exception: its code member and whether it carries an HTTP response.  *)
Err(c, r) == [code |-> c, response |-> r]
CircuitOpenError == Err("CIRCUIT_BREAKER_OPEN", FALSE)
TimeoutError == Err(Undef, FALSE)          \* p-timeout's TimeoutError: no code
FormatError == Err(Undef, FALSE)           \* new Error('...invalid response format')
CacheFullError == Err(Undef, FALSE)        \* node-cache ECACHEFULL: no code member

handleProxyError(error) ==
    IF error.code \in {"ECONNREFUSED", "ENOTFOUND"}
      THEN createErrorResponse(SERVER_UNAVAILABLE, Null)
    ELSE IF error.code \in {"ETIMEDOUT", "ECONNABORTED"}
      THEN createErrorResponse(REQUEST_TIMEOUT, Null)
    ELSE IF error.response
      THEN createErrorResponse(PROXY_ERROR, Null)
    ELSE createErrorResponse(INTERNAL_ERROR, Null)

----------------------------------------------------------------------------
(* proxy.js: pure helpers *)

isValidMCPRequest(r) ==
    /\ Truthy(r)
    /\ r.jsonrpc = "s:2.0"
    /\ TypeOf(r.method) = "string"
    /\ r.id # Undef

getPriority(method) ==
    IF method = "s:initialize" THEN 10
    ELSE IF method = "s:tools/list" THEN 8
    ELSE IF method = "s:tools/call" THEN 5
    ELSE IF method = "s:notifications/initialized" THEN 7
    ELSE 1

(* The catch block of processRequest.  Its first statement formats         *)
(* mcpRequest.method into the log line, which throws for null/undefined.   *)
catchBlock(r, error) ==
    IF MemberThrows(r) THEN Thrown
    ELSE IF error.code = "CIRCUIT_BREAKER_OPEN"
      THEN createErrorResponse(CIRCUIT_BREAKER_OPEN, r.id)
    ELSE handleProxyError(error)

(* What the forwarding call can end in: the upstream's object payload      *)
(* (a result, or a JSON-RPC error member), or an exception after the       *)
(* retries.  An object payload echoes the request id, as a JSON-RPC server *)
(* does.                                                                   *)
Outcomes == {"ok", "rpcerror", "badpayload", "ECONNREFUSED", "ECONNABORTED",
             "http4xx"}
(* Mutant of Fulfils: a client-error response does not reject the call. *)
Fulfils_ClientErrorsPass(o) == o \in {"ok", "rpcerror", "http4xx"}

Fulfils(o) == o \in {"ok", "rpcerror"}

(* Mutant of retryCondition: every failed attempt is retried. *)
retryCondition_AnyError(o) == o \notin {"ok", "rpcerror", "badpayload"}

(* axios-retry's retryCondition for the POST of forwardRequest, applied to *)
(* the outcome of one attempt: a network error (an error code, no          *)
(* response, not the ECONNABORTED of axios's own timeout) or a response    *)
(* with status >= 500.  An object or non-object payload is no axios error. *)
retryCondition(o) == o \in {"ECONNREFUSED", "http5xx"}

(* The retryDelay option: the delay before retry number retryCount. *)
retryDelayOf(retryCount) ==
    IF retryDelay * 2 ^ (retryCount - 1) < maxRetryDelay
    THEN retryDelay * 2 ^ (retryCount - 1)
    ELSE maxRetryDelay

forwardResult(r, o) ==
    IF o = "ok" THEN Response("result", 0, r.id)
    ELSE Response("error", METHOD_NOT_FOUND, r.id)

forwardError(o) ==
    IF o = "badpayload" THEN FormatError
    ELSE IF o = "http4xx" THEN Err("ERR_BAD_REQUEST", TRUE)
    ELSE IF o = "http5xx" THEN Err("ERR_BAD_RESPONSE", TRUE)
    ELSE Err(o, FALSE)

----------------------------------------------------------------------------
(* cache.js *)

(* Mutant of cacheTTL: tools/call has a TTL as well. *)
cacheTTL_CallsCached(method) ==
    IF method = "s:initialize" THEN TTL_initialize
    ELSE TTL_tools_list

cacheTTL(method) ==
    IF method = "s:initialize" THEN TTL_initialize
    ELSE IF method = "s:tools/list" THEN TTL_tools_list
    ELSE 0

shouldCache(method) ==
    /\ method \in {"s:initialize", "s:tools/list", "s:tools/call"}
    /\ cacheTTL(method) > 0

getCacheTTL(method) == cacheTTL(method)

(* JSON.stringify keeps the order in which the members were supplied; the  *)
(* digest is taken to be injective on the serialized text.                  *)
generateCacheKey(serverId, r) ==
    <<serverId, r.method, IF r.params = NoParams THEN <<"no-params">> ELSE r.params>>

(* NodeCache.get: an entry whose expiry lies in the past is deleted on     *)
(* access and reported absent.                                             *)
(* Mutant of Expired: no entry ever expires. *)
Expired_Never(entry, t) == FALSE

Expired(entry, t) == entry.expires < t
nodeCacheHas(c, key, t) == key \in DOMAIN c /\ ~Expired(c[key], t)
nodeCacheAfterGet(c, key, t) ==
    IF key \in DOMAIN c /\ Expired(c[key], t)
      THEN [k \in DOMAIN c \ {key} |-> c[k]]
      ELSE c

(* NodeCache.set: refuses with ECACHEFULL once maxKeys entries are held.   *)
nodeCacheFull(c) == Cardinality(DOMAIN c) >= maxKeys
(* Mutant of nodeCacheSet: the ttl is taken for milliseconds. *)
nodeCacheSet_Millis(c, key, value, ttl, t) ==
    [k \in DOMAIN c \cup {key} |->
        IF k = key THEN [value |-> value, expires |-> t + ttl] ELSE c[k]]

nodeCacheSet(c, key, value, ttl, t) ==
    [k \in DOMAIN c \cup {key} |->
        IF k = key THEN [value |-> value, expires |-> t + ttl * 1000] ELSE c[k]]

(* CacheManager.get: <<response or NoResp, cache, stats>> *)
cacheManagerGet(c, st, serverId, r, t) ==
    IF ~shouldCache(r.method) THEN <<NoResp, c, st>>
    ELSE LET key == generateCacheKey(serverId, r) IN
         IF nodeCacheHas(c, key, t)
           THEN <<c[key].value, c, [st EXCEPT !.hits = @ + 1]>>
           ELSE <<NoResp, nodeCacheAfterGet(c, key, t), [st EXCEPT !.misses = @ + 1]>>

(* Mutant of cacheManagerSet: error responses are stored too. *)
cacheManagerSet_StoresErrors(c, st, serverId, r, response, t) ==
    IF ~shouldCache(r.method) THEN <<FALSE, c, st>>
    ELSE IF nodeCacheFull(c) THEN <<TRUE, c, st>>
    ELSE <<FALSE,
           nodeCacheSet(c, generateCacheKey(serverId, r), response,
                        getCacheTTL(r.method), t),
           [st EXCEPT !.sets = @ + 1]>>

(* CacheManager.set: <<threw, cache, stats>> *)
cacheManagerSet(c, st, serverId, r, response, t) ==
    IF ~shouldCache(r.method) THEN <<FALSE, c, st>>
    ELSE IF response.kind = "error" THEN <<FALSE, c, st>>
    ELSE IF nodeCacheFull(c) THEN <<TRUE, c, st>>
    ELSE <<FALSE,
           nodeCacheSet(c, generateCacheKey(serverId, r), response,
                        getCacheTTL(r.method), t),
           [st EXCEPT !.sets = @ + 1]>>

----------------------------------------------------------------------------
(* circuit-breaker.js *)

NewBreaker(t) ==
    [state |-> "CLOSED", failureCount |-> 0, successCount |-> 0,
     nextAttempt |-> t, lastFailureTime |-> -1,
     totalRequests |-> 0, totalFailures |-> 0, totalSuccesses |-> 0,
     circuitBreakerTrips |-> 0]

(* Mutant of trip: the recovery period runs from the previous nextAttempt. *)
trip_FromLastAttempt(b, t) ==
    [b EXCEPT !.state = "OPEN",
              !.nextAttempt = @ + recoveryTimeout,
              !.circuitBreakerTrips = @ + 1]

(* Mutant of trip: the breaker opens without a recovery period. *)
trip_NoCoolDown(b, t) ==
    [b EXCEPT !.state = "OPEN",
              !.nextAttempt = t,
              !.circuitBreakerTrips = @ + 1]

trip(b, t) ==
    [b EXCEPT !.state = "OPEN",
              !.nextAttempt = t + recoveryTimeout,
              !.circuitBreakerTrips = @ + 1]

reset(b, t) ==
    [b EXCEPT !.state = "CLOSED", !.failureCount = 0, !.successCount = 0,
              !.nextAttempt = t]

forceReset(b, t) == reset(b, t)

(* Mutant of onSuccess: a successful probe is counted but does not close   *)
(* the breaker.                                                            *)
onSuccess_ProbeStaysHalfOpen(b, t) ==
    LET c == [b EXCEPT !.totalSuccesses = @ + 1, !.successCount = @ + 1] IN
    IF c.state = "CLOSED"
      THEN [c EXCEPT !.failureCount = IF @ - 1 > 0 THEN @ - 1 ELSE 0]
    ELSE c

(* Mutant of onSuccess: a success while CLOSED clears the failure count. *)
onSuccess_ClearsCount(b, t) ==
    LET c == [b EXCEPT !.totalSuccesses = @ + 1, !.successCount = @ + 1] IN
    IF c.state = "HALF_OPEN" THEN reset(c, t)
    ELSE IF c.state = "CLOSED" THEN [c EXCEPT !.failureCount = 0]
    ELSE c

(* Mutant of onSuccess: a success closes the breaker from any state. *)
onSuccess_AlwaysResets(b, t) ==
    LET c == [b EXCEPT !.totalSuccesses = @ + 1, !.successCount = @ + 1] IN
    IF c.state # "CLOSED" THEN reset(c, t)
    ELSE [c EXCEPT !.failureCount = IF @ - 1 > 0 THEN @ - 1 ELSE 0]

onSuccess(b, t) ==
    LET c == [b EXCEPT !.totalSuccesses = @ + 1, !.successCount = @ + 1] IN
    IF c.state = "HALF_OPEN" THEN reset(c, t)
    ELSE IF c.state = "CLOSED"
      THEN [c EXCEPT !.failureCount = IF @ - 1 > 0 THEN @ - 1 ELSE 0]
    ELSE c

(* Mutant of onFailure: a failed probe re-opens only through the          *)
(* threshold test of the CLOSED state.                                     *)
onFailure_NoRetrip(b, t) ==
    LET c == [b EXCEPT !.totalFailures = @ + 1, !.failureCount = @ + 1,
                       !.lastFailureTime = t] IN
    IF c.state = "CLOSED" /\ c.failureCount >= failureThreshold THEN trip(c, t)
    ELSE c

onFailure(b, t) ==
    LET c == [b EXCEPT !.totalFailures = @ + 1, !.failureCount = @ + 1,
                       !.lastFailureTime = t] IN
    IF c.state = "CLOSED" /\ c.failureCount >= failureThreshold THEN trip(c, t)
    ELSE IF c.state = "HALF_OPEN" THEN trip(c, t)
    ELSE c

(* CircuitBreaker.execute up to its await: whether it rejects with         *)
(* CIRCUIT_BREAKER_OPEN instead of calling fn.                             *)
executeRejects(b, t) == b.state = "OPEN" /\ t < b.nextAttempt

(* ... and the breaker it leaves behind. *)
executeEnter(b, t) ==
    LET c == [b EXCEPT !.totalRequests = @ + 1] IN
    IF c.state = "OPEN" /\ ~executeRejects(c, t)
      THEN [c EXCEPT !.state = "HALF_OPEN"]
      ELSE c

(* CircuitBreakerManager.getBreaker: created on first use. *)
getBreaker(brs, serverId, t) ==
    IF breakerKey(serverId) \in DOMAIN brs THEN brs
    ELSE [k \in DOMAIN brs \cup {breakerKey(serverId)} |->
            IF k = breakerKey(serverId) THEN NewBreaker(t) ELSE brs[k]]

(* Mutant of resetAll: every breaker is replaced by a new one. *)
resetAll_NewBreakers(brs, t) == [k \in DOMAIN brs |-> NewBreaker(t)]

resetAll(brs, t) == [k \in DOMAIN brs |-> forceReset(brs[k], t)]

----------------------------------------------------------------------------
(* The global queue (p-queue with concurrency, timeout, throwOnTimeout)    *)

(* A caller of processRequest: where it stands, its arguments, the breaker *)
(* its task closes over, the time it called processRequest, the time its   *)
(* task was started, and of its                                            *)
(* forwarding call the retries made so far, the delay before the latest    *)
(* one and the outcome of the attempt that caused it.                      *)
Idle == [pc |-> "idle", serverId |-> "-", req |-> NullReq, breaker |-> "-",
         arrived |-> 0, start |-> 0, retries |-> 0, delay |-> 0, cause |-> "-"]

(* An answer: the request, the backend it was for, and the response.       *)
Answer(r, sid, response) == [req |-> r, serverId |-> sid, response |-> response]
NoAnswer == Answer(NullReq, "-", NoResp)
NoAnswers == [s \in Callers |-> NoAnswer]

PriorityOf(cs, s) == getPriority(cs[s].req.method)

(* Mutant of enqueue: ahead of the waiting tasks of the same priority. *)
enqueue_Unstable(q, cs, s) ==
    LET ahead == {i \in 1..Len(q) : PriorityOf(cs, q[i]) > PriorityOf(cs, s)}
        n == Cardinality(ahead)
    IN  SubSeq(q, 1, n) \o <<s>> \o SubSeq(q, n + 1, Len(q))

(* PriorityQueue.enqueue: behind every waiting task of the same or a       *)
(* higher priority.                                                        *)
enqueue(q, cs, s) ==
    LET ahead == {i \in 1..Len(q) : PriorityOf(cs, q[i]) >= PriorityOf(cs, s)}
        n == Cardinality(ahead)
    IN  SubSeq(q, 1, n) \o <<s>> \o SubSeq(q, n + 1, Len(q))

(* One run of execute(): the caller, its backend, the breaker's state when *)
(* execute() was entered, and whether fn (the forwarding call) was called. *)
Ran(s, sid, seen, inv) ==
    [caller |-> s, serverId |-> sid, seen |-> seen, invoked |-> inv]

(* The state a handler threads through the queue; st.ran collects the      *)
(* runs of execute() of this step.                                         *)
SchedState(brs, q, p, cs, rs) ==
    [breakers |-> brs, queue |-> q, pending |-> p, concurrency |-> concurrency,
     callers |-> cs, resp |-> rs, ran |-> {}]

(* Mutant of tryToStartAnother: the concurrency ceiling is not consulted. *)
RECURSIVE tryToStartAnother_NoCeiling(_, _)
tryToStartAnother_NoCeiling(st, t) ==
    IF st.queue = <<>> THEN st
    ELSE LET s == Head(st.queue)
             sid == st.callers[s].breaker
             r == st.callers[s].req
             b == st.breakers[sid]
         IN  IF executeRejects(b, t)
             THEN tryToStartAnother_NoCeiling(
                    [st EXCEPT !.queue = Tail(@),
                               !.breakers[sid] = executeEnter(b, t),
                               !.resp[s] = Answer(r, st.callers[s].serverId,
                                                   catchBlock(r, CircuitOpenError)),
                               !.callers[s] = Idle,
                               !.ran = @ \cup {Ran(s, st.callers[s].serverId,
                                                   b.state, FALSE)}], t)
             ELSE tryToStartAnother_NoCeiling(
                    [st EXCEPT !.queue = Tail(@),
                               !.breakers[sid] = executeEnter(b, t),
                               !.pending = @ + 1,
                               !.callers[s].pc = "running",
                               !.callers[s].start = t,
                               !.ran = @ \cup {Ran(s, st.callers[s].serverId,
                                                   b.state, TRUE)}], t)

(* _tryToStartAnother, with the microtasks it sets off: while a slot is    *)
(* free the head of the queue runs; its task is                            *)
(* circuitBreaker.execute(() => forwardRequest(...)).  A task the breaker  *)
(* rejects ends at once (processRequest answers from its catch block) and  *)
(* its _next() starts the following one.                                   *)
RECURSIVE tryToStartAnother(_, _)
tryToStartAnother(st, t) ==
    IF st.queue = <<>> \/ st.pending >= st.concurrency THEN st
    ELSE LET s == Head(st.queue)
             sid == st.callers[s].breaker
             r == st.callers[s].req
             b == st.breakers[sid]
         IN  IF executeRejects(b, t)
             THEN tryToStartAnother(
                    [st EXCEPT !.queue = Tail(@),
                               !.breakers[sid] = executeEnter(b, t),
                               !.resp[s] = Answer(r, st.callers[s].serverId,
                                                   catchBlock(r, CircuitOpenError)),
                               !.callers[s] = Idle,
                               !.ran = @ \cup {Ran(s, st.callers[s].serverId,
                                                   b.state, FALSE)}], t)
             ELSE tryToStartAnother(
                    [st EXCEPT !.queue = Tail(@),
                               !.breakers[sid] = executeEnter(b, t),
                               !.pending = @ + 1,
                               !.callers[s].pc = "running",
                               !.callers[s].start = t,
                               !.ran = @ \cup {Ran(s, st.callers[s].serverId,
                                                   b.state, TRUE)}], t)

----------------------------------------------------------------------------
(* History of the last step *)

(* The operation, its caller and backend, the state of the backend's       *)
(* breaker before the step, whether a settled forwarding call fulfilled,   *)
(* and the runs of execute() in the step.                                  *)
Step(op, s, sid, prior, ful, ran) ==
    [op |-> op, caller |-> s, serverId |-> sid, prior |-> prior,
     fulfilled |-> ful, ran |-> ran, outcome |-> "-", stale |-> FALSE]

(* The trip log: a breaker's entry is the time of its latest trip and      *)
(* whether it was force-reset since, kept while the recovery window of     *)
(* that trip is running.                                                   *)
NoTrip == [at |-> -1, forced |-> FALSE]
InWindow(e, t) == e.at >= 0 /\ t < e.at + recoveryTimeout

LogTrips(old, new, log, t) ==
    [k \in DOMAIN new |->
       IF k \in DOMAIN old /\ new[k].circuitBreakerTrips > old[k].circuitBreakerTrips
         THEN [at |-> t, forced |-> FALSE]
       ELSE IF k \in DOMAIN log THEN log[k]
       ELSE NoTrip]

LogForced(log) ==
    [k \in DOMAIN log |-> IF log[k].at >= 0 THEN [log[k] EXCEPT !.forced = TRUE]
                          ELSE log[k]]

LogAt(log, t) == [k \in DOMAIN log |-> IF InWindow(log[k], t) THEN log[k] ELSE NoTrip]

PriorState(brs, serverId) ==
    IF breakerKey(serverId) \in DOMAIN brs THEN brs[breakerKey(serverId)].state
    ELSE "NONE"

(* Requests handed to the queue so far: those execute() has counted and    *)
(* those still waiting.                                                    *)
RECURSIVE SumRequests(_, _)
SumRequests(brs, ks) ==
    IF ks = {} THEN 0
    ELSE LET k == CHOOSE x \in ks : TRUE
         IN  brs[k].totalRequests + SumRequests(brs, ks \ {k})

Work == SumRequests(breakers, DOMAIN breakers) + Len(queue)

----------------------------------------------------------------------------
(* The state a new ProxyManager is in, for options.maxConcurrentRequests  *)
(* = c.                                                                    *)
Constructed(c) ==
    /\ now = 0
    /\ breakers = <<>>
    /\ cache = <<>>
    /\ cacheStats = [hits |-> 0, misses |-> 0, sets |-> 0]
    /\ queue = <<>>
    /\ pending = 0
    /\ concurrency = c
    /\ callers = [s \in Callers |-> Idle]
    /\ resp = NoAnswers
    /\ last = Step("init", 0, "-", "NONE", FALSE, {})
    /\ opened = <<>>

Init ==
    /\ Constructed(PipelineConcurrency)
    /\ valIn = NullReq
    /\ valOut = "none"

(* Mutant of Submit: the cache is consulted inside the breaker's execute. *)
Submit_ThroughBreaker(s, serverId, r) ==
    /\ callers[s].pc = "idle"
    /\ \A x \in Callers : x < s => callers[x].pc # "idle"
    /\ UNCHANGED <<now, concurrency, valIn, valOut>>
    /\ IF ~isValidMCPRequest(r)
       THEN /\ resp' = [NoAnswers EXCEPT ![s] = Answer(r, serverId,
                          IF MemberThrows(r) THEN catchBlock(r, Err(Undef, FALSE))
                          ELSE createErrorResponse(INVALID_REQUEST, r.id))]
            /\ last' = Step("invalid", s, serverId, PriorState(breakers, serverId),
                            FALSE, {})
            /\ UNCHANGED <<breakers, cache, cacheStats, queue, pending, callers,
                           opened>>
       ELSE LET got == cacheManagerGet(cache, cacheStats, serverId, r, now)
                brs == getBreaker(breakers, serverId, now)
                b == brs[breakerKey(serverId)]
            IN
            IF got[1] # NoResp
            THEN /\ cacheStats.hits < MaxHits
                 /\ resp' = [NoAnswers EXCEPT ![s] = Answer(r, serverId,
                               IF executeRejects(b, now)
                               THEN catchBlock(r, CircuitOpenError) ELSE got[1])]
                 /\ cache' = got[2]
                 /\ cacheStats' = got[3]
                 /\ breakers' = [brs EXCEPT ![breakerKey(serverId)] =
                                   IF executeRejects(b, now) THEN executeEnter(b, now)
                                   ELSE onSuccess(executeEnter(b, now), now)]
                 /\ last' = Step("hit", s, serverId, PriorState(breakers, serverId),
                                 FALSE, {})
                 /\ opened' = LogTrips(breakers, breakers', opened, now)
                 /\ UNCHANGED <<queue, pending, callers>>
            ELSE LET cs == [callers EXCEPT ![s] =
                              [Idle EXCEPT !.pc = "queued", !.serverId = serverId,
                                           !.req = r, !.arrived = now,
                                           !.breaker = breakerKey(serverId)]]
                     st == tryToStartAnother(
                             SchedState(brs, enqueue(queue, cs, s), pending, cs,
                                        NoAnswers), now)
                 IN  /\ cache' = got[2]
                     /\ cacheStats' = got[3]
                     /\ breakers' = st.breakers
                     /\ queue' = st.queue
                     /\ pending' = st.pending
                     /\ callers' = st.callers
                     /\ resp' = st.resp
                     /\ last' = [Step("submit", s, serverId,
                                      PriorState(breakers, serverId), FALSE,
                                      st.ran)
                                 EXCEPT !.stale = got[2] # cache]
                     /\ opened' = LogTrips(breakers, st.breakers, opened, now)

(* processRequest(serverId, r) up to its first await.  Callers are         *)
(* interchangeable: a new request takes the lowest free caller.            *)
Submit(s, serverId, r) ==
    /\ callers[s].pc = "idle"
    /\ \A x \in Callers : x < s => callers[x].pc # "idle"
    /\ UNCHANGED <<now, concurrency, valIn, valOut>>
    /\ IF ~isValidMCPRequest(r)
       THEN /\ resp' = [NoAnswers EXCEPT ![s] = Answer(r, serverId,
                          IF MemberThrows(r) THEN catchBlock(r, Err(Undef, FALSE))
                          ELSE createErrorResponse(INVALID_REQUEST, r.id))]
            /\ last' = Step("invalid", s, serverId, PriorState(breakers, serverId),
                            FALSE, {})
            /\ UNCHANGED <<breakers, cache, cacheStats, queue, pending, callers,
                           opened>>
       ELSE LET got == cacheManagerGet(cache, cacheStats, serverId, r, now) IN
            IF got[1] # NoResp
            THEN /\ cacheStats.hits < MaxHits
                 /\ resp' = [NoAnswers EXCEPT ![s] = Answer(r, serverId, got[1])]
                 /\ cache' = got[2]
                 /\ cacheStats' = got[3]
                 /\ last' = Step("hit", s, serverId, PriorState(breakers, serverId),
                                 FALSE, {})
                 /\ UNCHANGED <<breakers, queue, pending, callers, opened>>
            ELSE LET brs == getBreaker(breakers, serverId, now)
                     cs == [callers EXCEPT ![s] =
                              [Idle EXCEPT !.pc = "queued", !.serverId = serverId,
                                           !.req = r, !.arrived = now,
                                           !.breaker = breakerKey(serverId)]]
                     st == tryToStartAnother(
                             SchedState(brs, enqueue(queue, cs, s), pending, cs,
                                        NoAnswers), now)
                 IN  /\ cache' = got[2]
                     /\ cacheStats' = got[3]
                     /\ breakers' = st.breakers
                     /\ queue' = st.queue
                     /\ pending' = st.pending
                     /\ callers' = st.callers
                     /\ resp' = st.resp
                     /\ last' = [Step("submit", s, serverId,
                                      PriorState(breakers, serverId), FALSE,
                                      st.ran)
                                 EXCEPT !.stale = got[2] # cache]
                     /\ opened' = LogTrips(breakers, st.breakers, opened, now)

(* The forwarding call of an admitted task settles with outcome o before   *)
(* the queue's timeout: execute() records it, the queue frees the slot and *)
(* starts the next task, processRequest stores and returns the response.   *)
Complete(s, o) ==
    /\ callers[s].pc = "running"
    /\ now <= callers[s].start + queueTimeout
    /\ LET sid == callers[s].serverId
           k == callers[s].breaker
           r == callers[s].req
           b == IF Fulfils(o) THEN onSuccess(breakers[k], now)
                ELSE onFailure(breakers[k], now)
           st == tryToStartAnother(
                   SchedState([breakers EXCEPT ![k] = b], queue, pending - 1,
                              [callers EXCEPT ![s] = Idle], NoAnswers), now)
           put == cacheManagerSet(cache, cacheStats, sid, r, forwardResult(r, o), now)
       IN  /\ breakers' = st.breakers
           /\ queue' = st.queue
           /\ pending' = st.pending
           /\ callers' = st.callers
           /\ IF Fulfils(o)
              THEN /\ cache' = put[2]
                   /\ cacheStats' = put[3]
                   /\ resp' = [st.resp EXCEPT ![s] = Answer(r, sid,
                                 IF put[1] THEN catchBlock(r, CacheFullError)
                                 ELSE forwardResult(r, o))]
              ELSE /\ UNCHANGED <<cache, cacheStats>>
                   /\ resp' = [st.resp EXCEPT ![s] =
                                 Answer(r, sid, catchBlock(r, forwardError(o)))]
           /\ last' = [Step("complete", s, sid, breakers[k].state, Fulfils(o),
                            st.ran) EXCEPT !.outcome = o]
           /\ opened' = LogTrips(breakers, st.breakers, opened, now)
    /\ UNCHANGED <<now, concurrency, valIn, valOut>>

(* The queue's timeout fires for an admitted task: add() rejects with a    *)
(* TimeoutError, the slot is freed and the next task starts; the           *)
(* forwarding call itself is not cancelled.                                *)
Timeout(s) ==
    /\ callers[s].pc = "running"
    /\ now >= callers[s].start + queueTimeout
    /\ LET sid == callers[s].serverId
           r == callers[s].req
           st == tryToStartAnother(
                   SchedState(breakers, queue, pending - 1,
                              [callers EXCEPT ![s].pc = "detached"],
                              [NoAnswers EXCEPT ![s] =
                                 Answer(r, sid, catchBlock(r, TimeoutError))]),
                   now)
       IN  /\ breakers' = st.breakers
           /\ queue' = st.queue
           /\ pending' = st.pending
           /\ callers' = st.callers
           /\ resp' = st.resp
           /\ last' = Step("timeout", s, sid, PriorState(breakers, sid), FALSE,
                           st.ran)
           /\ opened' = LogTrips(breakers, st.breakers, opened, now)
    /\ UNCHANGED <<now, concurrency, cache, cacheStats, valIn, valOut>>

(* Mutant of CompleteDetached: the late response is stored in the cache. *)
CompleteDetached_Stores(s, o) ==
    /\ callers[s].pc = "detached"
    /\ LET sid == callers[s].serverId
           k == callers[s].breaker
           r == callers[s].req
           put == cacheManagerSet(cache, cacheStats, sid, r, forwardResult(r, o), now)
       IN
         /\ breakers' = [breakers EXCEPT ![k] =
                           IF Fulfils(o) THEN onSuccess(@, now) ELSE onFailure(@, now)]
         /\ last' = [Step("late", s, sid, breakers[k].state, Fulfils(o), {})
                      EXCEPT !.outcome = o]
         /\ opened' = LogTrips(breakers, breakers', opened, now)
         /\ cache' = IF Fulfils(o) THEN put[2] ELSE cache
         /\ cacheStats' = IF Fulfils(o) THEN put[3] ELSE cacheStats
    /\ callers' = [callers EXCEPT ![s] = Idle]
    /\ resp' = NoAnswers
    /\ UNCHANGED <<now, concurrency, queue, pending, valIn, valOut>>

(* A forwarding call whose task had timed out settles: only execute() is   *)
(* still listening.                                                        *)
CompleteDetached(s, o) ==
    /\ callers[s].pc = "detached"
    /\ LET sid == callers[s].serverId
           k == callers[s].breaker
       IN
         /\ breakers' = [breakers EXCEPT ![k] =
                           IF Fulfils(o) THEN onSuccess(@, now) ELSE onFailure(@, now)]
         /\ last' = [Step("late", s, sid, breakers[k].state, Fulfils(o), {})
                      EXCEPT !.outcome = o]
         /\ opened' = LogTrips(breakers, breakers', opened, now)
    /\ callers' = [callers EXCEPT ![s] = Idle]
    /\ resp' = NoAnswers
    /\ UNCHANGED <<now, concurrency, cache, cacheStats, queue, pending, valIn, valOut>>

(* ProxyManager.cleanup: globalQueue.clear() drops the waiting tasks       *)
(* without settling their promises, the cache is flushed and every         *)
(* breaker force-reset.                                                    *)
Cleanup ==
    /\ queue' = <<>>
    /\ callers' = [s \in Callers |->
                     IF callers[s].pc = "queued"
                     THEN [callers[s] EXCEPT !.pc = "stranded"] ELSE callers[s]]
    /\ cache' = <<>>
    /\ breakers' = resetAll(breakers, now)
    /\ resp' = NoAnswers
    /\ last' = Step("cleanup", 0, "-", "NONE", FALSE, {})
    /\ opened' = LogForced(opened)
    /\ UNCHANGED <<now, concurrency, cacheStats, pending, valIn, valOut>>

(* NodeCache's periodic check (checkperiod) deletes the expired entries.   *)
Sweep ==
    /\ \E k \in DOMAIN cache : Expired(cache[k], now)
    /\ cache' = [k \in {x \in DOMAIN cache : ~Expired(cache[x], now)} |-> cache[k]]
    /\ resp' = NoAnswers
    /\ last' = Step("sweep", 0, "-", "NONE", FALSE, {})
    /\ UNCHANGED opened
    /\ UNCHANGED <<now, concurrency, breakers, cacheStats, queue, pending, callers, valIn, valOut>>

(* Time passes. *)
Tick(d) ==
    /\ now + d <= MaxTime
    /\ now' = now + d
    /\ resp' = NoAnswers
    /\ last' = Step("tick", 0, "-", "NONE", FALSE, {})
    /\ opened' = LogAt(opened, now + d)
    /\ UNCHANGED <<concurrency, breakers, cache, cacheStats, queue, pending, callers, valIn, valOut>>

(* Mutant of Retry: the breaker records every failed attempt. *)
Retry_CountsFailure(s, o) ==
    /\ callers[s].pc \in {"running", "detached"}
    /\ retryCondition(o)
    /\ callers[s].retries < retryAttempts
    /\ callers' = [callers EXCEPT ![s].retries = @ + 1,
                                  ![s].delay = retryDelayOf(callers[s].retries + 1),
                                  ![s].cause = o]
    /\ breakers' = [breakers EXCEPT ![callers[s].breaker] = onFailure(@, now)]
    /\ resp' = NoAnswers
    /\ last' = [Step("retry", s, callers[s].serverId,
                     PriorState(breakers, callers[s].serverId), FALSE, {})
                EXCEPT !.outcome = o]
    /\ opened' = LogTrips(breakers, breakers', opened, now)
    /\ UNCHANGED <<now, concurrency, cache, cacheStats, queue, pending, valIn, valOut>>

(* One upstream attempt of a forwarding call ends in o and axios-retry     *)
(* schedules another: inside axios.post, unseen by execute() and by the    *)
(* queue, and whether or not the queue has timed the task out.             *)
Retry(s, o) ==
    /\ callers[s].pc \in {"running", "detached"}
    /\ retryCondition(o)
    /\ callers[s].retries < retryAttempts
    /\ callers' = [callers EXCEPT ![s].retries = @ + 1,
                                  ![s].delay = retryDelayOf(callers[s].retries + 1),
                                  ![s].cause = o]
    /\ breakers' = breakers
    /\ resp' = NoAnswers
    /\ last' = [Step("retry", s, callers[s].serverId,
                     PriorState(breakers, callers[s].serverId), FALSE, {})
                EXCEPT !.outcome = o]
    /\ opened' = LogTrips(breakers, breakers', opened, now)
    /\ UNCHANGED <<now, concurrency, cache, cacheStats, queue, pending, valIn, valOut>>

(* The attempt that ends in o ends the forwarding call: it fulfilled, or   *)
(* axios-retry does not retry it, or the retries are used up.              *)
Final(s, o) == ~retryCondition(o) \/ callers[s].retries >= retryAttempts

(* Time passes, on the scale of the cache's TTLs. *)
Elapse(d) ==
    /\ now + d <= MaxCacheTime
    /\ now' = now + d
    /\ resp' = NoAnswers
    /\ last' = Step("tick", 0, "-", "NONE", FALSE, {})
    /\ opened' = LogAt(opened, now + d)
    /\ UNCHANGED <<concurrency, breakers, cache, cacheStats, queue, pending, callers, valIn, valOut>>

(* isValidMCPRequest applied to valIn *)
Validate ==
    /\ valOut = "none"
    /\ valOut' = IF isValidMCPRequest(valIn) THEN "true" ELSE "false"
    /\ UNCHANGED <<now, concurrency, breakers, cache, cacheStats, queue, pending,
                   callers, resp, last, opened, valIn>>

----------------------------------------------------------------------------
(* Specifications *)

(* Request values the callers send: not an object, wrong version, empty   *)
(* method, no id, and well-formed requests for an uncached and a cached    *)
(* method.                                                                 *)
Requests ==
    { NullReq,
      ObjReq("s:1.0", "s:tools/call", "#1", NoParams),
      ObjReq("s:2.0", "s:", "#1", NoParams),
      ObjReq("s:2.0", "s:tools/call", Undef, NoParams),
      ObjReq("s:2.0", "s:tools/call", "#1", NoParams),
      ObjReq("s:2.0", "s:tools/list", "#1", NoParams),
      ObjReq("s:2.0", "s:tools/list", "#2", NoParams) }

(* The pipeline: every kind of request and outcome, one backend, more      *)
(* callers than the queue admits.                                          *)
Next ==
    \/ \E s \in 1..FewCallers, r \in Requests :
         Work < MaxPipeline /\ Submit(s, "A", r)
    \/ \E s \in Callers, o \in Outcomes : Complete(s, o)
    \/ \E s \in Callers : Timeout(s)
    \/ \E s \in Callers, o \in Outcomes : CompleteDetached(s, o)
    \/ Cleanup
    \/ Tick(queueTimeout)

Spec == Init /\ [][Next]_vars

(* The pipeline under the assumption that every forwarding call            *)
(* eventually settles or is timed out by the queue.                        *)
Settle(s) ==
    \/ \E o \in Outcomes : Complete(s, o)
    \/ Timeout(s)
    \/ \E o \in Outcomes : CompleteDetached(s, o)

SpecLive == Init /\ [][Next]_vars /\ \A s \in Callers : WF_vars(Settle(s))

(* The breaker of one backend: well-formed requests that always reach the  *)
(* breaker, forwarding calls that fulfil or reject, as many callers as the *)
(* queue admits, long enough for trips and recoveries.                     *)
BreakerRequests == { ObjReq("s:2.0", "s:tools/call", "#1", NoParams) }
BreakerOutcomes == {"ok", "ECONNREFUSED"}

InitBreaker ==
    /\ Constructed(BreakerConcurrency)
    /\ valIn = NullReq
    /\ valOut = "none"

NextBreaker ==
    \/ \E s \in 1..FewCallers, r \in BreakerRequests :
         Work < MaxRequests /\ Submit(s, "A", r)
    \/ \E s \in Callers, o \in BreakerOutcomes : Complete(s, o)
    \/ \E s \in Callers : Timeout(s)
    \/ \E s \in Callers, o \in BreakerOutcomes : CompleteDetached(s, o)
    \/ Cleanup
    \/ Tick(recoveryTimeout)

SpecBreaker == InitBreaker /\ [][NextBreaker]_vars

(* The breakers of two backends side by side, over one recovery period. *)
NextIsolation ==
    \/ \E s \in 1..FewCallers, b \in Backends, r \in BreakerRequests :
         Work < MaxIsolation /\ Submit(s, b, r)
    \/ \E s \in Callers, o \in BreakerOutcomes : Complete(s, o)
    \/ now < recoveryTimeout /\ Tick(recoveryTimeout)

SpecIsolation == Init /\ [][NextIsolation]_vars

(* The validator on its own, over every shape of request value. *)
ValidatorInputs ==
    {NullReq, UndefReq, NumReq} \cup
    { ObjReq(j, m, i, NoParams) :
        j \in {"s:2.0", "s:1.0", "#2", Undef},
        m \in {"s:tools/call", "s:", "#5", Null, Undef},
        i \in {"#1", "s:a", Null, Undef} }

InitValidator ==
    /\ Constructed(PipelineConcurrency)
    /\ valIn \in ValidatorInputs
    /\ valOut = "none"

SpecValidator == InitValidator /\ [][Validate]_vars

(* The cache: requests for the cached methods, two of them with the same   *)
(* params members supplied in different order, across the TTLs of both     *)
(* methods, with and without the periodic sweep.  The bound on the         *)
(* requests handed to the queue leaves requests the cache serves alone.    *)
CacheRequests ==
    { ObjReq("s:2.0", "s:tools/list", "#1", <<"a", "b">>),
      ObjReq("s:2.0", "s:tools/list", "#1", <<"b", "a">>),
      ObjReq("s:2.0", "s:initialize", "#1", NoParams) }
CacheOutcomes == {"ok", "rpcerror", "ECONNREFUSED"}
CacheStep == 200000

NextCache ==
    \/ \E s \in 1..FewCallers, r \in CacheRequests :
         /\ Work < MaxCache \/ nodeCacheHas(cache, generateCacheKey("A", r), now)
         /\ Submit(s, "A", r)
    \/ \E s \in Callers, o \in CacheOutcomes : Complete(s, o)
    \/ \E s \in Callers : Timeout(s)
    \/ \E s \in Callers, o \in CacheOutcomes : CompleteDetached(s, o)
    \/ Sweep
    \/ Elapse(CacheStep)

SpecCache == InitBreaker /\ [][NextCache]_vars

(* A manager whose cache has reached maxKeys: it has forwarded and stored  *)
(* maxKeys successful initialize requests of distinct params for backend   *)
(* A, the last of them just now.                                           *)
FillerParams == UNION {[1..n -> {"x", "y"}] : n \in {3, 5, 6, 7, 8, 9}}

FullCache ==
    [k \in {<<"A", "s:initialize", p>> : p \in FillerParams} |->
        [value |-> Response("result", 0, "#1"),
         expires |-> 1000 * TTL_initialize]]

InitFull ==
    /\ now = 0
    /\ breakers = [k \in {breakerKey("A")} |->
                     [NewBreaker(0) EXCEPT !.totalRequests = maxKeys,
                                           !.totalSuccesses = maxKeys,
                                           !.successCount = maxKeys]]
    /\ cache = FullCache
    /\ cacheStats = [hits |-> 0, misses |-> maxKeys, sets |-> maxKeys]
    /\ queue = <<>>
    /\ pending = 0
    /\ concurrency = BreakerConcurrency
    /\ callers = [s \in Callers |-> Idle]
    /\ resp = NoAnswers
    /\ last = Step("init", 0, "-", "NONE", FALSE, {})
    /\ opened = [k \in {breakerKey("A")} |-> NoTrip]
    /\ valIn = NullReq
    /\ valOut = "none"

NextFull ==
    \/ \E s \in 1..FewCallers, r \in CacheRequests \cup BreakerRequests :
         Work < maxKeys + MaxFull /\ Submit(s, "A", r)
    \/ \E s \in Callers, o \in CacheOutcomes : Complete(s, o)

SpecFull == InitFull /\ [][NextFull]_vars

(* Waiting and running: one slot, more callers than slots, and a clock     *)
(* that lets a task wait and then run, each for less than the queue's      *)
(* timeout.                                                                *)
NextWait ==
    \/ \E s \in Callers, r \in BreakerRequests :
         Work < MaxWait /\ Submit(s, "A", r)
    \/ \E s \in Callers, o \in BreakerOutcomes : Complete(s, o)
    \/ \E s \in Callers : Timeout(s)
    \/ \E s \in Callers, o \in BreakerOutcomes : CompleteDetached(s, o)
    \/ Tick(WaitStep)

SpecWait == Init /\ [][NextWait]_vars

(* One backend's breaker next to the cache: a cached and an uncached       *)
(* method, every way a forwarding call can end, and enough requests to     *)
(* trip the breaker after a response was cached.                           *)
TripRequests ==
    { ObjReq("s:2.0", "s:tools/call", "#1", NoParams),
      ObjReq("s:2.0", "s:tools/list", "#1", NoParams) }

NextTrip ==
    \/ \E s \in 1..FewCallers, r \in TripRequests :
         /\ Work < MaxTrip \/ nodeCacheHas(cache, generateCacheKey("A", r), now)
         /\ Submit(s, "A", r)
    \/ \E s \in Callers, o \in Outcomes : Complete(s, o)

SpecTrip == InitBreaker /\ [][NextTrip]_vars

(* cleanup() in the middle of the traffic: a cached and an uncached        *)
(* method, calls that fulfil or reject, one slot so that tasks wait.       *)
NextCleanup ==
    \/ \E s \in 1..FewCallers, r \in TripRequests :
         /\ Work < MaxCleanup \/ nodeCacheHas(cache, generateCacheKey("A", r), now)
         /\ Submit(s, "A", r)
    \/ \E s \in Callers, o \in BreakerOutcomes : Complete(s, o)
    \/ Cleanup

SpecCleanup == Init /\ [][NextCleanup]_vars

(* A backend that is down and recovers: until RecoverAt its calls can      *)
(* fail, from then on every call fulfils.  Calls keep settling or being    *)
(* timed out by the queue, requests keep arriving while the bound allows,  *)
(* and time passes.                                                        *)
RecoverAt == 2 * recoveryTimeout
Down == now < RecoverAt

CallSettles(s) ==
    \/ Complete(s, "ok")
    \/ Down /\ Complete(s, "ECONNREFUSED")
    \/ Timeout(s)
    \/ CompleteDetached(s, "ok")
    \/ Down /\ CompleteDetached(s, "ECONNREFUSED")

Arrive ==
    \E s \in 1..FewCallers, r \in BreakerRequests :
        Work < MaxRecover /\ Submit(s, "A", r)

Pass == Tick(recoveryTimeout) \/ Tick(queueTimeout)

NextRecover ==
    \/ Arrive
    \/ \E s \in Callers : CallSettles(s)
    \/ Pass

SpecRecover ==
    /\ InitBreaker
    /\ [][NextRecover]_vars
    /\ WF_vars(\E s \in Callers : CallSettles(s))
    /\ WF_vars(Arrive)
    /\ WF_vars(Pass)

(* The queue: requests of two priorities from more callers than the queue  *)
(* admits.                                                                 *)
QueueRequests ==
    { ObjReq("s:2.0", "s:tools/call", "#1", NoParams),
      ObjReq("s:2.0", "s:ping", "#1", NoParams) }

NextQueue ==
    \/ \E s \in Callers, r \in QueueRequests :
         Work < MaxQueue /\ Submit(s, "A", r)
    \/ \E s \in Callers, o \in BreakerOutcomes : Complete(s, o)
    \/ \E s \in Callers : Timeout(s)
    \/ \E s \in Callers, o \in BreakerOutcomes : CompleteDetached(s, o)
    \/ Cleanup
    \/ Tick(queueTimeout)

SpecQueue == Init /\ [][NextQueue]_vars

(* The forwarding call attempt by attempt: every outcome of an attempt,    *)
(* retried or final.                                                       *)
RetryOutcomes == Outcomes \cup {"http5xx"}

NextRetry ==
    \/ \E s \in 1..FewCallers, r \in BreakerRequests :
         Work < MaxRetry /\ Submit(s, "A", r)
    \/ \E s \in Callers, o \in RetryOutcomes : Retry(s, o)
    \/ \E s \in Callers, o \in RetryOutcomes : Final(s, o) /\ Complete(s, o)
    \/ \E s \in Callers : Timeout(s)
    \/ \E s \in Callers, o \in RetryOutcomes : Final(s, o) /\ CompleteDetached(s, o)
    \/ Tick(queueTimeout)

SpecRetry == InitBreaker /\ [][NextRetry]_vars

----------------------------------------------------------------------------
(* Properties *)

(* C1: processRequest never throws or rejects: whatever the backend id,    *)
(* the request value and the outcome of the upstream call, every answer is *)
(* a response object (a result or an error), never a rejected promise.     *)
C1_NeverThrows ==
    \A s \in Callers : resp[s].response.kind \in {"none", "result", "error"}

(* Forwarding calls that are executing: admitted, and not yet settled. *)
Executing == {s \in Callers : callers[s].pc \in {"running", "detached"}}
Counted == {s \in Callers : callers[s].pc = "running"}

(* C2 as stated: the number of admitted tasks that are still executing     *)
(* never exceeds the configured ceiling.                                   *)
C2_ExecutingWithinCeiling == Cardinality(Executing) <= concurrency

(* C2 as amended: the number of admitted tasks that have neither settled   *)
(* nor timed out - the queue's pending count - never exceeds the ceiling.  *)
C2_PendingWithinCeiling ==
    /\ pending = Cardinality(Counted)
    /\ pending <= concurrency

(* More tasks were submitted than the ceiling admits: one waits while the  *)
(* ceiling is reached.                                                     *)
C2_Witness == queue # <<>> /\ pending = concurrency

(* The breaker that serves backend b, and the runs of execute() of the     *)
(* last step that were for b.                                              *)
RanFor(b) == {e \in last.ran : e.serverId = b}

(* C3 as stated: after a trip, every further call that reaches the breaker *)
(* before recoveryTimeout has elapsed since the trip fails with -32003 and *)
(* the backend call is not invoked for it.                                 *)
C3_RejectsUntilRecovery ==
    \A e \in last.ran :
        InWindow(opened[breakerKey(e.serverId)], now) =>
            /\ ~e.invoked
            /\ resp[e.caller].response =
                 createErrorResponse(CIRCUIT_BREAKER_OPEN, resp[e.caller].req.id)

(* C3 as amended: ... provided the breaker was not force-reset (cleanup)   *)
(* since the trip.                                                         *)
C3_RejectsUntilRecoveryUnlessReset ==
    \A e \in last.ran :
        (/\ InWindow(opened[breakerKey(e.serverId)], now)
         /\ ~opened[breakerKey(e.serverId)].forced) =>
            /\ ~e.invoked
            /\ resp[e.caller].response =
                 createErrorResponse(CIRCUIT_BREAKER_OPEN, resp[e.caller].req.id)

(* A call reached the breaker inside the recovery window of a trip and was *)
(* turned away.                                                            *)
C3_Witness ==
    \E e \in last.ran :
        /\ InWindow(opened[breakerKey(e.serverId)], now)
        /\ ~opened[breakerKey(e.serverId)].forced
        /\ e.seen = "OPEN"
        /\ ~e.invoked

(* C4: while the breaker is HALF_OPEN (its probe is in flight) no other    *)
(* call invokes the backend call: execute() never calls fn when it finds   *)
(* the breaker already HALF_OPEN.                                          *)
C4_SingleProbe == \A e \in last.ran : e.invoked => e.seen # "HALF_OPEN"

(* C5: a call that settles while the breaker is HALF_OPEN closes it with   *)
(* failureCount = 0 and successCount = 0 when it succeeded, and re-opens   *)
(* it with nextAttempt = now + recoveryTimeout when it failed.             *)
C5_HalfOpenOutcome ==
    (last.op \in {"complete", "late"} /\ last.prior = "HALF_OPEN") =>
        LET b == breakers[breakerKey(last.serverId)] IN
        IF last.fulfilled
        THEN b.state = "CLOSED" /\ b.failureCount = 0 /\ b.successCount = 0
        ELSE b.state = "OPEN" /\ b.nextAttempt = now + recoveryTimeout

(* A probe failed and re-opened the breaker. *)
C5_Witness ==
    /\ last.op \in {"complete", "late"}
    /\ last.prior = "HALF_OPEN"
    /\ ~last.fulfilled
    /\ breakers[breakerKey(last.serverId)].state = "OPEN"

(* A probe succeeded and closed the breaker. *)
C5_WitnessSuccess ==
    /\ last.op \in {"complete", "late"}
    /\ last.prior = "HALF_OPEN"
    /\ last.fulfilled
    /\ breakers[breakerKey(last.serverId)].state = "CLOSED"

(* C6: apart from the forced reset, a breaker's state changes only along   *)
(* CLOSED->OPEN, OPEN->HALF_OPEN, HALF_OPEN->CLOSED and HALF_OPEN->OPEN.   *)
AllowedTransitions ==
    { <<"CLOSED", "OPEN">>, <<"OPEN", "HALF_OPEN">>,
      <<"HALF_OPEN", "CLOSED">>, <<"HALF_OPEN", "OPEN">> }

C6_Transitions ==
    [][\A k \in DOMAIN breakers :
          breakers'[k].state # breakers[k].state =>
              \/ last'.op = "cleanup"
              \/ <<breakers[k].state, breakers'[k].state>> \in AllowedTransitions]_vars

(* A call that succeeded while the breaker was OPEN left it OPEN. *)
C6_Witness ==
    /\ last.op \in {"complete", "late"}
    /\ last.prior = "OPEN"
    /\ last.fulfilled
    /\ breakers[breakerKey(last.serverId)].state = "OPEN"

(* C7: the breaker that serves a backend changes only in a step that       *)
(* handles a call of that backend (or in the forced reset), and a request  *)
(* is answered -32003 only while its own backend's breaker is OPEN.        *)
Touches(b) ==
    \/ last.op = "cleanup"
    \/ last.op \in {"complete", "late"} /\ last.serverId = b
    \/ RanFor(b) # {}

C7_Independent ==
    [][/\ \A b \in Backends :
            (/\ breakerKey(b) \in DOMAIN breakers
             /\ breakers'[breakerKey(b)] # breakers[breakerKey(b)]) => Touches(b)'
       /\ \A s \in Callers :
            (resp'[s].response.kind = "error"
               /\ resp'[s].response.code = CIRCUIT_BREAKER_OPEN) =>
                breakers'[breakerKey(resp'[s].serverId)].state = "OPEN"]_vars

(* Backend A's breaker is OPEN and a call for backend B went through. *)
C7_Witness ==
    /\ "A" \in DOMAIN breakers
    /\ breakers["A"].state = "OPEN"
    /\ \E e \in RanFor("B") : e.invoked /\ e.seen = "CLOSED"

(* A malformed envelope, in the words of the validator's contract. *)
WellFormed(r) ==
    /\ r.t = "object"
    /\ r.jsonrpc = "s:2.0"
    /\ TypeOf(r.method) = "string"
    /\ r.method # "s:"
    /\ r.id # Undef

(* C8: a request with a malformed envelope is answered with error -32600   *)
(* and leaves cache, breakers, queue and statistics as they were.          *)
C8_MalformedRejectedUntouched ==
    [][\A s \in Callers :
          (resp'[s] # NoAnswer /\ ~WellFormed(resp'[s].req)) =>
              /\ resp'[s].response.kind = "error"
              /\ resp'[s].response.code = INVALID_REQUEST
              /\ UNCHANGED <<breakers, cache, cacheStats, queue, pending, callers>>]_vars

(* C9: the validator accepts a request iff its version is "2.0", its       *)
(* method is a non-empty string and its id key is present.                 *)
C9_AcceptsIffWellFormed ==
    valOut # "none" => (valOut = "true" <=> WellFormed(valIn))

(* C10: every response echoes the id of the request it answers (no id or   *)
(* null when the request had none).                                        *)
C10_EchoesId ==
    \A s \in Callers :
        resp[s].response.kind \in {"result", "error"} =>
            IF resp[s].req.id \in {Undef, Null}
            THEN resp[s].response.id \in {Undef, Null}
            ELSE resp[s].response.id = resp[s].req.id

(* The request of the last step, when that step was a call of              *)
(* processRequest, and its cache key.                                      *)
SubmittedReq ==
    IF resp[last.caller] # NoAnswer THEN resp[last.caller].req
    ELSE callers[last.caller].req
SubmittedKey == generateCacheKey(last.serverId, SubmittedReq)

(* Params with the same members, whatever the order they were supplied in. *)
SameMembers(p, q) ==
    /\ Len(p) = Len(q)
    /\ {p[i] : i \in 1..Len(p)} = {q[i] : i \in 1..Len(q)}

(* An entry enters the cache only when a forwarded request completes, and  *)
(* expires TTL seconds after that instant (tools/list 300, initialize 600).*)
StoresWithTTL ==
    \A k \in DOMAIN cache' :
        (k \notin DOMAIN cache \/ cache'[k] # cache[k]) =>
            /\ last'.op = "complete"
            /\ k = generateCacheKey(last'.serverId, resp'[last'.caller].req)
            /\ cache'[k].expires =
                 now + 1000 * (IF k[2] = "s:tools/list" THEN TTL_tools_list
                               ELSE TTL_initialize)

(* C11: a request for a cacheable method is not forwarded while the cache  *)
(* holds a live entry of a request with the same backend, method and       *)
(* params members, whatever the order the members were supplied in.        *)
C11_OrderInsensitiveKey ==
    (last.op = "submit" /\ shouldCache(SubmittedReq.method)) =>
        ~\E k \in DOMAIN cache :
            /\ k[1] = last.serverId
            /\ k[2] = SubmittedReq.method
            /\ SameMembers(k[3], SubmittedKey[3])
            /\ now < cache[k].expires

(* C12: an entry is stored with the TTL of its method, and a request whose *)
(* key has an entry that has not yet expired is answered with the stored   *)
(* response without reaching breaker or queue.                             *)
C12_HitWithinTTL ==
    [][/\ StoresWithTTL
       /\ (/\ last'.op \in {"submit", "hit"}
           /\ shouldCache(SubmittedReq'.method)
           /\ SubmittedKey' \in DOMAIN cache
           /\ now < cache[SubmittedKey'].expires) =>
               /\ last'.op = "hit"
               /\ resp'[last'.caller].response = cache[SubmittedKey'].value
               /\ UNCHANGED <<breakers, queue, pending, callers, cache>>]_vars

(* A request was served from the cache some time after the entry was       *)
(* stored and before it expired.                                           *)
C12_Witness ==
    /\ last.op = "hit"
    /\ SubmittedKey \in DOMAIN cache
    /\ now < cache[SubmittedKey].expires
    /\ now > 0

(* C13: a response served from the cache comes from an entry whose TTL has *)
(* not elapsed, and a request whose entry's TTL has elapsed is forwarded   *)
(* and the entry dropped, swept or not.                                    *)
C13_NoExpiredEntryServed ==
    [][/\ StoresWithTTL
       /\ last'.op = "hit" =>
            /\ SubmittedKey' \in DOMAIN cache
            /\ now <= cache[SubmittedKey'].expires
       /\ (/\ last'.op \in {"submit", "hit"}
           /\ SubmittedKey' \in DOMAIN cache
           /\ cache[SubmittedKey'].expires < now) =>
               /\ last'.op = "submit"
               /\ SubmittedKey' \notin DOMAIN cache']_vars

(* A request found its entry expired and unswept, and was forwarded. *)
C13_Witness == last.op = "submit" /\ last.stale

Waiting(q) == {q[i] : i \in 1..Len(q)}
Place(q, x) == CHOOSE i \in 1..Len(q) : q[i] = x

(* The priority of a task that ran in the step just taken: that of its     *)
(* waiting caller, or of the request just submitted.                       *)
RanPriority(x) ==
    IF x \in Waiting(queue) THEN PriorityOf(callers, x)
    ELSE getPriority(SubmittedReq'.method)

(* C15: the queue is in descending priority; waiting tasks keep their      *)
(* order, a newcomer goes behind the waiting tasks of its priority, tasks  *)
(* are admitted from the front, and no admitted task leaves a task of      *)
(* higher priority, or an earlier one of its own priority, waiting.        *)
C15_PriorityThenArrival ==
    [][last'.op # "cleanup" =>
        /\ \A i, j \in 1..Len(queue') :
             i < j => PriorityOf(callers', queue'[i]) >= PriorityOf(callers', queue'[j])
        /\ \A x, y \in Waiting(queue) \cap Waiting(queue') :
             Place(queue, x) < Place(queue, y) => Place(queue', x) < Place(queue', y)
        /\ \A x \in Waiting(queue') \ Waiting(queue), y \in Waiting(queue') \cap Waiting(queue) :
             PriorityOf(callers', y) = PriorityOf(callers', x)
                 => Place(queue', y) < Place(queue', x)
        /\ \A x \in Waiting(queue) \ Waiting(queue'), y \in Waiting(queue) \cap Waiting(queue') :
             Place(queue, x) < Place(queue, y)
        /\ \A e \in last'.ran, y \in Waiting(queue') :
             /\ RanPriority(e.caller) >= PriorityOf(callers', y)
             /\ (e.caller \notin Waiting(queue) /\ y \in Waiting(queue))
                   => RanPriority(e.caller) > PriorityOf(callers', y)]_vars

(* A newcomer of higher priority went to the front of a waiting task. *)
C15_Witness ==
    /\ last.op = "submit"
    /\ Len(queue) >= 2
    /\ queue[1] = last.caller
    /\ PriorityOf(callers, queue[1]) > PriorityOf(callers, queue[2])

(* Two tasks of one priority wait in their order of arrival behind it. *)
C15_WitnessFifo ==
    /\ last.op = "submit"
    /\ Len(queue) >= 2
    /\ queue[Len(queue)] = last.caller
    /\ PriorityOf(callers, queue[1]) = PriorityOf(callers, queue[2])

(* The delay the backoff rule gives retry number n. *)
Backoff(n) ==
    LET d == retryDelay * 2 ^ (n - 1) IN IF d < maxRetryDelay THEN d ELSE maxRetryDelay

(* C16: a forwarding call makes at most 1 + retryAttempts attempts; a      *)
(* retry follows only a network error or a status >= 500, never a 4xx;     *)
(* the delay before retry n is min(retryDelay * 2^(n-1), maxRetryDelay),   *)
(* so the delays never decrease and never exceed maxRetryDelay.            *)
C16_BoundedBackoff ==
    [][\A s \in Callers :
          /\ 1 + callers'[s].retries <= 1 + retryAttempts
          /\ (callers'[s].retries # callers[s].retries /\ callers'[s].retries > 0) =>
                /\ callers'[s].retries = callers[s].retries + 1
                /\ last'.op = "retry" /\ last'.caller = s
                /\ last'.outcome \in {"ECONNREFUSED", "http5xx"}
                /\ last'.outcome # "http4xx"
                /\ callers'[s].delay = Backoff(callers'[s].retries)
                /\ callers'[s].delay >= callers[s].delay
                /\ callers'[s].delay <= maxRetryDelay]_vars

(* A forwarding call has made its last retry, after the longest delay. *)
C16_Witness ==
    \E s \in Callers :
        /\ last.op = "retry" /\ last.caller = s
        /\ callers[s].retries = retryAttempts
        /\ callers[s].delay = 2000

(* The breaker k as it was before the step (new when the step created it). *)
BreakerBefore(k) == IF k \in DOMAIN breakers THEN breakers[k] ELSE NewBreaker(now)

(* C17: a retry leaves every breaker as it is; a breaker's totalRequests   *)
(* rises by one per call of execute(), one success or failure is recorded  *)
(* when a forwarding call settles (its retries done) and at no other       *)
(* time, and failureCount rises by at most one in a step.                  *)
C17_OneBreakerCallPerRequest ==
    [][\A k \in DOMAIN breakers' :
          /\ last'.op = "retry" => breakers'[k] = BreakerBefore(k)
          /\ breakers'[k].totalRequests - BreakerBefore(k).totalRequests =
               Cardinality({e \in last'.ran : breakerKey(e.serverId) = k})
          /\ (breakers'[k].totalSuccesses + breakers'[k].totalFailures)
               - (BreakerBefore(k).totalSuccesses + BreakerBefore(k).totalFailures) =
               IF last'.op \in {"complete", "late"} /\ breakerKey(last'.serverId) = k
               THEN 1 ELSE 0
          /\ breakers'[k].failureCount <= BreakerBefore(k).failureCount + 1
          /\ (last'.op \in {"complete", "late"} /\ last'.outcome \in {"ECONNREFUSED", "http5xx"})
               => callers[last'.caller].retries = retryAttempts]_vars

(* A request whose four attempts all failed is one failed call to the      *)
(* breaker.                                                                *)
C17_Witness ==
    /\ last.op = "complete"
    /\ last.outcome = "http5xx"
    /\ breakers["A"].totalRequests = 1
    /\ breakers["A"].totalFailures = 1
    /\ breakers["A"].failureCount = 1

(* C18: a non-object upstream payload is surfaced as the generic proxy     *)
(* error, code -32004.                                                     *)
C18_FormatErrorIsProxyError ==
    (last.op = "complete" /\ last.outcome = "badpayload") =>
        /\ resp[last.caller].response.kind = "error"
        /\ resp[last.caller].response.code = PROXY_ERROR

(* C19: a request that fails because it timed out, by the forwarding       *)
(* call's own timeout or by the queue's task timeout, is answered with     *)
(* error -32002.                                                           *)
C19_TimeoutsAre32002 ==
    (\/ last.op = "timeout"
     \/ last.op = "complete" /\ last.outcome = "ECONNABORTED") =>
        /\ resp[last.caller].response.kind = "error"
        /\ resp[last.caller].response.code = REQUEST_TIMEOUT

(* A caller whose processRequest has not returned yet. *)
Awaiting(s) == callers[s].pc \in {"queued", "running", "stranded"}

(* C20: every call of processRequest eventually returns, whatever the      *)
(* interleaving with other requests and with cleanup().                    *)
C20_EveryCallReturns == \A s \in Callers : Awaiting(s) ~> ~Awaiting(s)

(* The breaker of the call that settled in the last step. *)
SettledBreaker == breakers[breakerKey(last.serverId)]

C22_SuccessReturnedWhenFull ==
    (last.op = "complete" /\ last.outcome = "ok") =>
        resp[last.caller].response = forwardResult(resp[last.caller].req, "ok")

(* C23: when the queue's timeout fires for an outstanding call, the caller *)
(* gets an error and the call goes on; when the call later settles, the    *)
(* breaker records its outcome, nobody is answered and the cache is left   *)
(* as it was.                                                              *)
C23_LateOutcomeCountedNotCached ==
    [][/\ last'.op = "timeout" =>
            /\ resp'[last'.caller].response.kind = "error"
            /\ callers'[last'.caller].pc = "detached"
            /\ cache' = cache
       /\ last'.op = "late" =>
            LET k == breakerKey(last'.serverId) IN
            /\ callers[last'.caller].pc = "detached"
            /\ breakers'[k].totalSuccesses =
                 breakers[k].totalSuccesses + (IF last'.fulfilled THEN 1 ELSE 0)
            /\ breakers'[k].totalFailures =
                 breakers[k].totalFailures + (IF last'.fulfilled THEN 0 ELSE 1)
            /\ cache' = cache
            /\ cacheStats' = cacheStats
            /\ resp' = NoAnswers]_vars

C23_Witness ==
    /\ last.op = "late" /\ last.outcome = "ok"
    /\ SettledBreaker.totalSuccesses = 1
    /\ cache = <<>>

(* C24: the queue's timeout bounds the time a task has waited and run in   *)
(* total: a task that leaves the queue's slot more than queueTimeout after *)
(* its request arrived was failed with a timeout.                          *)
C24_TimeoutBoundsQueuedPlusRunning ==
    [][\A s \in Callers :
         (/\ callers[s].pc = "running"
          /\ callers'[s].pc # "running"
          /\ now - callers[s].arrived > queueTimeout)
         => (last'.op = "timeout" /\ last'.caller = s)]_vars

(* Methods the TTL table gives no positive TTL. *)
Uncached(method) == method \notin {"s:initialize", "s:tools/list"}

(* C25: a valid request for a method without a positive TTL is never       *)
(* answered from the cache but handed to the queue for forwarding, and     *)
(* neither its arrival nor the settling of its call changes the cache.     *)
C25_UncachedNeverStored ==
    [][/\ (/\ last'.op \in {"invalid", "submit", "hit"}
           /\ isValidMCPRequest(SubmittedReq')
           /\ Uncached(SubmittedReq'.method)) =>
            /\ last'.op = "submit"
            /\ \/ callers'[last'.caller].pc \in {"queued", "running"}
               \/ \E e \in last'.ran : e.caller = last'.caller
            /\ cache' = cache
            /\ cacheStats' = cacheStats
       /\ (/\ last'.op \in {"complete", "timeout", "late"}
           /\ Uncached(callers[last'.caller].req.method)) =>
            /\ cache' = cache
            /\ cacheStats' = cacheStats]_vars

C25_Witness ==
    /\ last.op = "complete" /\ last.outcome = "ok"
    /\ resp[last.caller].req.method = "s:tools/call"
    /\ resp[last.caller].response.kind = "result"
    /\ cache # <<>>
    /\ \A k \in DOMAIN cache : k[2] # "s:tools/call"

C26_WitnessInFlight ==
    /\ last.op = "complete"
    /\ \E s \in Callers : callers[s].pc = "stranded"
    /\ cache # <<>>
    /\ SettledBreaker.successCount > 0

(* C27: a cache hit is answered with the cached response without touching  *)
(* breakers or queue: no breaker is created, no breaker changes, nothing   *)
(* is queued or started, whatever the state of the backend's breaker.      *)
C27_HitBypassesBreakerAndQueue ==
    [][last'.op = "hit" =>
         /\ breakers' = breakers
         /\ queue' = queue
         /\ pending' = pending
         /\ callers' = callers
         /\ last'.ran = {}
         /\ resp'[last'.caller].response =
              cache[generateCacheKey(last'.serverId, resp'[last'.caller].req)].value]_vars

C27_Witness ==
    /\ last.op = "hit"
    /\ last.prior = "OPEN"
    /\ executeRejects(SettledBreaker, now)
    /\ resp[last.caller].response.kind = "result"

(* C28: identical requests for a cacheable method share one forwarded      *)
(* call: no two forwarding calls for the same backend and the same request *)
(* are in flight together.                                                 *)
C28_IdenticalRequestsShareOneCall ==
    \A s, x \in Callers :
        (/\ s # x
         /\ callers[s].pc = "running"
         /\ callers[x].pc = "running"
         /\ callers[s].serverId = callers[x].serverId
         /\ callers[s].req = callers[x].req)
        => ~shouldCache(callers[s].req.method)

(* C29 as stated: a CLOSED breaker has 0 <= failureCount < failureThreshold, *)
(* failureCount is never negative, and an OPEN breaker has                 *)
(* nextAttempt >= lastFailureTime + recoveryTimeout.                       *)
C29_BreakerInvariant ==
    \A k \in DOMAIN breakers :
        /\ breakers[k].state = "CLOSED" =>
             (0 <= breakers[k].failureCount /\ breakers[k].failureCount < failureThreshold)
        /\ breakers[k].failureCount >= 0
        /\ breakers[k].state = "OPEN" =>
             breakers[k].nextAttempt >= breakers[k].lastFailureTime + recoveryTimeout

(* C29: a CLOSED breaker has 0 <= failureCount < failureThreshold,         *)
(* failureCount is never negative, a breaker that trips has nextAttempt =  *)
(* lastFailureTime + recoveryTimeout, and nextAttempt stays as it is while *)
(* the breaker stays OPEN.                                                 *)
C29_BreakerInvariantAtTrip ==
    [][\A k \in DOMAIN breakers' :
         /\ breakers'[k].state = "CLOSED" =>
              (0 <= breakers'[k].failureCount
               /\ breakers'[k].failureCount < failureThreshold)
         /\ breakers'[k].failureCount >= 0
         /\ (k \in DOMAIN breakers
             /\ breakers'[k].circuitBreakerTrips > breakers[k].circuitBreakerTrips) =>
               /\ breakers'[k].state = "OPEN"
               /\ breakers'[k].lastFailureTime = now
               /\ breakers'[k].nextAttempt =
                    breakers'[k].lastFailureTime + recoveryTimeout
         /\ (k \in DOMAIN breakers
             /\ breakers[k].state = "OPEN" /\ breakers'[k].state = "OPEN"
             /\ breakers'[k].circuitBreakerTrips = breakers[k].circuitBreakerTrips) =>
               breakers'[k].nextAttempt = breakers[k].nextAttempt]_vars

(* A call admitted before the trip has failed after it. *)
C29_Witness ==
    /\ last.op \in {"complete", "late"} /\ ~last.fulfilled /\ last.prior = "OPEN"
    /\ SettledBreaker.state = "OPEN"
    /\ SettledBreaker.nextAttempt < SettledBreaker.lastFailureTime + recoveryTimeout

(* C30: the breaker records a forwarding call that ends in an object       *)
(* payload, with or without a JSON-RPC error member, as one success, and   *)
(* one that ends in any rejection (network error after the retries,        *)
(* timeout, malformed payload, 4xx) as one failure, tripping from CLOSED   *)
(* when failureCount reaches failureThreshold.                             *)
C30_EveryRejectionIsOneFailure ==
    [][last'.op \in {"complete", "late"} =>
         LET before == breakers[breakerKey(last'.serverId)]
             after == breakers'[breakerKey(last'.serverId)]
         IN  IF last'.outcome \in {"ok", "rpcerror"}
             THEN /\ after.totalSuccesses = before.totalSuccesses + 1
                  /\ after.totalFailures = before.totalFailures
                  /\ after.circuitBreakerTrips = before.circuitBreakerTrips
             ELSE /\ after.totalFailures = before.totalFailures + 1
                  /\ after.totalSuccesses = before.totalSuccesses
                  /\ after.failureCount = before.failureCount + 1
                  /\ (before.state = "CLOSED"
                      /\ before.failureCount + 1 >= failureThreshold) =>
                       /\ after.state = "OPEN"
                       /\ after.circuitBreakerTrips = before.circuitBreakerTrips + 1]_vars

(* The fifth failure in a row, a 4xx response, has tripped the breaker. *)
C30_Witness ==
    /\ last.op = "complete" /\ last.outcome = "http4xx" /\ last.prior = "CLOSED"
    /\ SettledBreaker.state = "OPEN"
    /\ SettledBreaker.totalFailures = failureThreshold
    /\ SettledBreaker.totalSuccesses = 0

(* A response with a JSON-RPC error member has lowered the failure count. *)
C30_WitnessErrorMember ==
    /\ last.op = "complete" /\ last.outcome = "rpcerror" /\ last.prior = "CLOSED"
    /\ SettledBreaker.totalFailures = failureThreshold - 1
    /\ SettledBreaker.failureCount = failureThreshold - 2

(* The state of backend A's breaker, NONE before its first request. *)
StateOfA == PriorState(breakers, "A")

(* C31: once the backend has recovered, a breaker that is HALF_OPEN, or    *)
(* OPEN with another request still to arrive, reaches CLOSED, and a        *)
(* breaker that is CLOSED stays CLOSED.                                    *)
C31_RecoversAndStaysClosed ==
    /\ (/\ ~Down
        /\ \/ StateOfA = "HALF_OPEN"
           \/ StateOfA = "OPEN" /\ Work < MaxRecover)
         ~> (StateOfA = "CLOSED")
    /\ [][(~Down /\ StateOfA = "CLOSED") => StateOfA' = "CLOSED"]_vars

(* After a trip, the probe sent once the backend had recovered has closed  *)
(* the breaker.                                                            *)
C31_Witness ==
    /\ ~Down
    /\ last.op \in {"complete", "late"} /\ last.fulfilled /\ last.prior = "HALF_OPEN"
    /\ SettledBreaker.state = "CLOSED"
    /\ SettledBreaker.circuitBreakerTrips >= 1
    /\ SettledBreaker.totalFailures >= failureThreshold
====
